---- MODULE Spec2Model ----
(***************************************************************************)
(* Model of functions/federated_aws_rp/app.py: the Lambda entry point      *)
(* lambda_handler and the handlers it dispatches to.  The whole session    *)
(* lives in the cookie the client holds; one action of the model is one    *)
(* request, from the decoding of the cookie to the response.               *)
(*                                                                         *)
(* The collaborators imported from .utils and .config (login, get_store,   *)
(* get_discovery_document, convert_account_alias, get_aws_federation_url,  *)
(* trigger_group_role_map_rebuild, get_roles, get_email_or_username,       *)
(* return_api_gateway_json, ...) are not part of app.py; they are modelled *)
(* from their documented contracts, each outcome they can have being a     *)
(* nondeterministic choice of the request.                                 *)
(***************************************************************************)
EXTENDS Integers, Sequences, FiniteSets, TLC

VARIABLES
    cookie,   \* the session record (cookie store) the client holds
    req,      \* the last request: operation, decoded store, parsed body
    resp      \* the last response, with the log of what the request did

vars == <<cookie, req, resp>>

(***************************************************************************)
(* Bounds                                                                  *)
(***************************************************************************)
\* number of distinct values os.urandom(32) is taken to produce
NumNonces == 2
\* number of distinct ID tokens the identity provider issues
NumTokens == 2

(***************************************************************************)
(* Values                                                                  *)
(***************************************************************************)
\* Python's None, and equally a key that a dict does not hold (dict.get)
Absent == "None"
\* an absent oidc_state / code_verifier / state parameter
NoNonce == 0
Nonces == 1..NumNonces
\* an absent id_token
NoToken == 0
Tokens == 1..NumTokens

\* a role ARN whose account part is an account id, and one whose account
\* part is an account alias that convert_account_alias has to look up
ArnById == "arn:aws:iam::111122223333:role/Admin"
ArnByAlias == "arn:aws:iam::prod:role/Admin"

\* client_workflow_value payloads
NoValue == [kind |-> "none", text |-> ""]
Message(m) == [kind |-> "message", text |-> m]
FederationUrl == [kind |-> "awsFederationUrl", text |-> "https://signin.aws.amazon.com/federation"]

\* what get_store returns for an absent or unverifiable cookie: {}
EmptyStore ==
    [action |-> Absent, oidc_state |-> NoNonce, code_verifier |-> NoNonce,
     id_token |-> NoToken, role_arn |-> Absent, role_name |-> Absent,
     role_account_alias |-> Absent, destination_url |-> Absent,
     session_duration |-> Absent, cache |-> Absent,
     client_workflow_state |-> Absent, client_workflow_value |-> NoValue]

\* get_store(cookie_header): the record of the cookie the client sent; {}
\* when it sent none or one that does not verify, which is the session of
\* the initial state
get_store(held) == held

(***************************************************************************)
(* The log of one request: the writes to client_workflow_state, the calls  *)
(* to collaborators that leave the process, and the audit log lines.       *)
(***************************************************************************)
Call(name, outcome) == [ev |-> "call", a |-> name, b |-> outcome]
Set(state, text) == [ev |-> "set", a |-> state, b |-> text]
Audit(what) == [ev |-> "audit", a |-> what, b |-> ""]

\* store['client_workflow_state'] = s ; store['client_workflow_value'] = v
SetWorkflow(store, s, v) ==
    [store EXCEPT !.client_workflow_state = s, !.client_workflow_value = v]

(***************************************************************************)
(* Results of the code a request is dispatched to                          *)
(***************************************************************************)
NoLocation == [state |-> NoNonce, challenge |-> NoNonce, method |-> Absent]
NoBodyOut == [text |-> "", state |-> Absent, value |-> NoValue, location |-> NoLocation]
Text(t) == [NoBodyOut EXCEPT !.text = t]

\* an exception leaving the dispatched code
Raise(store, log) ==
    [store |-> store,
     log |-> log,
     raised |-> TRUE,
     status |-> 0,
     setCookie |-> FALSE,
     body |-> NoBodyOut]

\* return_api_gateway_json(store, body): 200, JSON body, and a Set-Cookie
\* header encoding store when store is not None
return_api_gateway_json(setCookie, store, body, log) ==
    [store |-> store,
     log |-> log,
     raised |-> FALSE,
     status |-> 200,
     setCookie |-> setCookie,
     body |-> body]

\* a fixed-status response without Set-Cookie
Fixed(status, text, store, log) ==
    [store |-> store,
     log |-> log,
     raised |-> FALSE,
     status |-> status,
     setCookie |-> FALSE,
     body |-> Text(text)]

(***************************************************************************)
(* Collaborators from .utils, modelled from their contracts                *)
(***************************************************************************)
\* the AccessDenied exception, with the detail it carries for the server log
AccessDenied(msg, log) ==
    [kind |-> "AccessDenied", log |-> log, msg |-> msg, token |-> NoToken]

\* login(state, code, error, error_description, cookie_header): the token
\* exchange.  AccessDenied when the provider reported an error, when state is
\* not the session's oidc_state, or when there is no code, all before the
\* token endpoint is called; otherwise the token endpoint decides: an ID
\* token, AccessDenied (non-success response, or a token that does not
\* validate), or a failure of another kind (network, timeout).
login(body, store) ==
    IF body.error # Absent
    THEN {AccessDenied(IF body.error_description # Absent
                       THEN body.error_description ELSE body.error, <<>>)}
    ELSE IF body.state # store.oidc_state
    THEN {AccessDenied("Invalid state", <<>>)}
    ELSE IF body.code = Absent
    THEN {AccessDenied("No code", <<>>)}
    ELSE {[kind |-> "ok", log |-> <<Call("token_endpoint", "ok")>>,
           msg |-> "", token |-> t] : t \in Tokens}
         \cup {AccessDenied("Token exchange failed",
                            <<Call("token_endpoint", "denied")>>)}
         \cup {[kind |-> "Other", log |-> <<Call("token_endpoint", "timeout")>>,
                msg |-> "timeout", token |-> NoToken]}

\* convert_account_alias(role_arn, id_token, cache): an ARN that names an
\* account id is used as it is; an alias is looked up, and the lookup
\* resolves it or fails with AccessDenied
convert_account_alias(role_arn) ==
    IF role_arn = ArnByAlias
    THEN {[kind |-> "ok", arn |-> ArnById], [kind |-> "AccessDenied", arn |-> role_arn]}
    ELSE {[kind |-> "ok", arn |-> role_arn]}

\* get_aws_federation_url(jwks, store): the federation URL, AccessDenied when
\* the role assumption is rejected, or a failure of another kind when the
\* federation endpoint cannot be reached.  Without an id_token in the store
\* no URL is issued.
get_aws_federation_url(store) ==
    IF store.id_token = NoToken
    THEN {"AccessDenied", "Other"}
    ELSE {"ok", "AccessDenied", "Other"}

\* trigger_group_role_map_rebuild(jwks, id_token): triggers the rebuild or
\* fails with AccessDenied
trigger_group_role_map_rebuild(id_token) == {"ok", "AccessDenied"}

\* get_roles(id_token, cache): the role list, or a failure
get_roles(id_token) == {"ok", "AccessDenied", "Other"}

\* get_email_or_username(jwks, id_token): reads the claims of a token; a
\* token that login validated has them, no token may or may not raise
get_email_or_username(id_token) ==
    IF id_token = NoToken THEN {"ok", "Other"} ELSE {"ok"}

\* get_discovery_document(): the memoized discovery document; the fetch that
\* fills the cache can fail.  lambda_handler fetches it first, the later
\* calls of the same request are served from the cache.
get_discovery_document == {"ok", "fail"}

(***************************************************************************)
(* POST /api/roles and the callback's role branch: pick_role               *)
(***************************************************************************)
pick_role(store, log) ==
    {IF fed = "ok"
     THEN return_api_gateway_json(TRUE,
              SetWorkflow(store, "aws_federate", FederationUrl), NoBodyOut,
              log \o <<Call("get_aws_federation_url", "ok"), Set("aws_federate", "")>>)
     ELSE IF fed = "AccessDenied"
     THEN return_api_gateway_json(TRUE,
              SetWorkflow(store, "error", Message("Access denied")), NoBodyOut,
              log \o <<Call("get_aws_federation_url", "AccessDenied"),
                       Set("error", "Access denied")>>)
     ELSE Raise(store, log \o <<Call("get_aws_federation_url", "Other")>>)
     : fed \in get_aws_federation_url(store)}

(***************************************************************************)
(* /redirect_callback: handle_oidc_redirect_callback                       *)
(***************************************************************************)
\* ActionKind that takes every action other than the rebuild for the
\* default, aws-web-console
ActionKindDefaultsToConsole(action) ==
    IF action = "rebuild-group-role-map" THEN "rebuild" ELSE "console"

\* the branch the stored action selects (the if / elif / else on
\* store.get('action'))
ActionKind(action) ==
    IF action = "aws-web-console" THEN "console"
    ELSE IF action = "rebuild-group-role-map" THEN "rebuild"
    ELSE "invalid"

\* the role branch: a role_arn came with the initial request
CallbackPickRole(store, log) ==
    UNION {IF c.kind = "AccessDenied"
           THEN {Raise(store, log \o <<Call("convert_account_alias", "AccessDenied")>>)}
           ELSE {IF r.raised THEN r
                 ELSE [r EXCEPT !.log = r.log \o <<Audit("Role assumed")>>]
                 : r \in pick_role([store EXCEPT !.role_arn = c.arn],
                                   log \o <<Call("convert_account_alias", "ok")>>)}
           : c \in convert_account_alias(store.role_arn)}

\* CallbackRebuild without the except AccessDenied clause around the trigger
CallbackRebuildUncaught(store, log) ==
    LET s1 == SetWorkflow(store, "info", Message("Processing rebuild..."))
        l1 == log \o <<Set("info", "Processing rebuild...")>>
    IN {IF t = "AccessDenied"
        THEN Raise(s1, l1 \o <<Call("trigger_group_role_map_rebuild", "AccessDenied")>>)
        ELSE return_api_gateway_json(TRUE,
                 SetWorkflow(s1, "info", Message("Group Role Map rebuild initiated")),
                 NoBodyOut,
                 l1 \o <<Call("trigger_group_role_map_rebuild", "ok"),
                         Audit("Group role map rebuild initiated"),
                         Set("info", "Group Role Map rebuild initiated")>>)
        : t \in trigger_group_role_map_rebuild(store.id_token)}

\* the rebuild branch
CallbackRebuild(store, log) ==
    LET s1 == SetWorkflow(store, "info", Message("Processing rebuild..."))
        l1 == log \o <<Set("info", "Processing rebuild...")>>
    IN {IF t = "AccessDenied"
        THEN return_api_gateway_json(TRUE,
                 SetWorkflow(s1, "error", Message("Access denied")), NoBodyOut,
                 l1 \o <<Call("trigger_group_role_map_rebuild", "AccessDenied"),
                         Set("error", "Access denied")>>)
        ELSE return_api_gateway_json(TRUE,
                 SetWorkflow(s1, "info", Message("Group Role Map rebuild initiated")),
                 NoBodyOut,
                 l1 \o <<Call("trigger_group_role_map_rebuild", "ok"),
                         Audit("Group role map rebuild initiated"),
                         Set("info", "Group Role Map rebuild initiated")>>)
        : t \in trigger_group_role_map_rebuild(store.id_token)}

\* what follows a successful login: the routing on the stored action
RouteAction(store, log) ==
    IF ActionKind(store.action) = "console"
    THEN IF store.role_arn # Absent
         THEN CallbackPickRole(store, log)
         ELSE {return_api_gateway_json(TRUE,
                   [store EXCEPT !.client_workflow_state = "role_picker"],
                   NoBodyOut, log \o <<Set("role_picker", "")>>)}
    ELSE IF ActionKind(store.action) = "rebuild"
    THEN CallbackRebuild(store, log)
    ELSE {return_api_gateway_json(TRUE,
              SetWorkflow(store, "error", Message("Invalid action argument")),
              NoBodyOut, log \o <<Set("error", "Invalid action argument")>>)}

\* LoginDenied without its return statement: the denied request goes on to
\* the routing on the action
LoginDeniedFallsThrough(store, e) ==
    RouteAction(SetWorkflow(store, "error", Message("Access denied")),
                e.log \o <<Set("error", "Access denied")>>)

\* LoginDenied with an except clause that does not match AccessDenied
LoginDeniedUncaught(store, e) == {Raise(store, e.log)}

\* LoginDenied that hands the text of the exception to the client
LoginDeniedLeaks(store, e) ==
    {return_api_gateway_json(TRUE,
         SetWorkflow(store, "error", Message(e.msg)), NoBodyOut,
         e.log \o <<Set("error", e.msg)>>)}

\* LoginDenied that also drops the id_token of the record
LoginDeniedClearsToken(store, e) ==
    {return_api_gateway_json(TRUE,
         SetWorkflow([store EXCEPT !.id_token = NoToken],
                     "error", Message("Access denied")), NoBodyOut,
         e.log \o <<Set("error", "Access denied")>>)}

\* the except AccessDenied clause around login
LoginDenied(store, e) ==
    {return_api_gateway_json(TRUE,
         SetWorkflow(store, "error", Message("Access denied")), NoBodyOut,
         e.log \o <<Set("error", "Access denied")>>)}

\* handle_oidc_redirect_callback that removes code_verifier from the record
\* once login has used it
handle_oidc_redirect_callback_consuming(store, body) ==
    UNION {IF r.kind = "AccessDenied" THEN LoginDenied(store, r)
           ELSE IF r.kind = "Other" THEN {Raise(store, r.log)}
           ELSE RouteAction([store EXCEPT !.id_token = r.token,
                                          !.code_verifier = NoNonce], r.log)
           : r \in login(body, store)}

\* store['id_token'] = login(...) in a try whose except AccessDenied clause
\* is LoginDenied, then the routing on the action
handle_oidc_redirect_callback(store, body) ==
    UNION {IF r.kind = "AccessDenied" THEN LoginDenied(store, r)
           ELSE IF r.kind = "Other" THEN {Raise(store, r.log)}
           ELSE RouteAction([store EXCEPT !.id_token = r.token], r.log)
           : r \in login(body, store)}

(***************************************************************************)
(* GET /api/state: get_state                                               *)
(***************************************************************************)
\* get_state that consumes the value it reports: it clears
\* client_workflow_value and hands the store back to be encoded
get_state_consuming(store) ==
    return_api_gateway_json(TRUE,
        [store EXCEPT !.client_workflow_value = NoValue],
        [NoBodyOut EXCEPT !.text = "state",
                          !.state = store.client_workflow_state,
                          !.value = store.client_workflow_value],
        <<>>)

get_state(store) ==
    return_api_gateway_json(FALSE, store,
        [NoBodyOut EXCEPT !.text = "state",
                          !.state = store.client_workflow_state,
                          !.value = store.client_workflow_value],
        <<>>)

(***************************************************************************)
(* / : redirect_to_idp                                                     *)
(***************************************************************************)
\* base64_without_padding(hashlib.sha256(code_verifier.encode()).digest()):
\* a value determined by the verifier, different for different verifiers and
\* different from every verifier
S256(verifier) == verifier + NumNonces

\* redirect_to_idp that stores 'redirecting' as the client_workflow_state of
\* the record it builds
redirect_to_idp_redirecting(action, stored_vars, session_duration, cache) ==
    {LET store == [EmptyStore EXCEPT
                      !.action = action,
                      !.oidc_state = state,
                      !.code_verifier = code_verifier,
                      !.session_duration = session_duration,
                      !.cache = cache,
                      !.client_workflow_state = "redirecting",
                      !.destination_url = stored_vars.destination_url,
                      !.role_arn = stored_vars.role_arn,
                      !.role_name = stored_vars.role_name,
                      !.role_account_alias = stored_vars.role_account_alias]
     IN [store |-> store,
         log |-> <<>>,
         raised |-> FALSE,
         status |-> 302,
         setCookie |-> TRUE,
         body |-> [NoBodyOut EXCEPT
            !.text = "Redirecting to identity provider",
            !.location = [state |-> state,
            challenge |-> S256(code_verifier),
            method |-> "S256"]]]
     : code_verifier \in Nonces, state \in Nonces}

\* redirect_to_idp that computes code_challenge from state in the place of
\* code_verifier
redirect_to_idp_challenge_of_state(action, stored_vars, session_duration, cache) ==
    {LET store == [EmptyStore EXCEPT
                      !.action = action,
                      !.oidc_state = state,
                      !.code_verifier = code_verifier,
                      !.session_duration = session_duration,
                      !.cache = cache,
                      !.destination_url = stored_vars.destination_url,
                      !.role_arn = stored_vars.role_arn,
                      !.role_name = stored_vars.role_name,
                      !.role_account_alias = stored_vars.role_account_alias]
     IN [store |-> store,
         log |-> <<>>,
         raised |-> FALSE,
         status |-> 302,
         setCookie |-> TRUE,
         body |-> [NoBodyOut EXCEPT
            !.text = "Redirecting to identity provider",
            !.location = [state |-> state,
            challenge |-> S256(state),
            method |-> "S256"]]]
     : code_verifier \in Nonces, state \in Nonces}

\* the record of a new session and the redirect to the authorization
\* endpoint; code_verifier and state are two draws of os.urandom(32)
redirect_to_idp(action, stored_vars, session_duration, cache) ==
    {LET store == [EmptyStore EXCEPT
                      !.action = action,
                      !.oidc_state = state,
                      !.code_verifier = code_verifier,
                      !.session_duration = session_duration,
                      !.cache = cache,
                      !.destination_url = stored_vars.destination_url,
                      !.role_arn = stored_vars.role_arn,
                      !.role_name = stored_vars.role_name,
                      !.role_account_alias = stored_vars.role_account_alias]
     IN [store |-> store,
         log |-> <<>>,
         raised |-> FALSE,
         status |-> 302,
         setCookie |-> TRUE,
         body |-> [NoBodyOut EXCEPT
            !.text = "Redirecting to identity provider",
            !.location = [state |-> state,
            challenge |-> S256(code_verifier),
            method |-> "S256"]]]
     : code_verifier \in Nonces, state \in Nonces}

(***************************************************************************)
(* lambda_handler                                                          *)
(***************************************************************************)
\* the parsed POST body, with the keys the handlers read
NoBody ==
    [state |-> NoNonce,
     error |-> Absent,
     error_description |-> Absent,
     code |-> Absent,
     arn |-> Absent,
     alias |-> Absent,
     role |-> Absent]

\* how the statements of lambda_handler that precede the dispatch end,
\* whatever the path and the method of the request:
\*   "discovery_failed"  get_discovery_document() raises
\*   "b64_error"   base64.b64decode / json.loads raise binascii.Error or
\*                 UnicodeDecodeError, a ValueError the except clause does
\*                 not name
\*   "json_error"  they raise JSONDecodeError or TypeError (no body), caught
\*   "ok"          the body is a JSON object
Prefixes == {"discovery_failed", "b64_error", "json_error", "ok"}

\* parsed_body after a caught parse error
JsonErrorBody == [NoBody EXCEPT !.error = "Unable to parse POST data"]

\* the bodies the identity provider's redirect can carry
ProviderErrors ==
    {[error |-> Absent, error_description |-> Absent],
     [error |-> "access_denied", error_description |-> Absent],
     [error |-> "access_denied", error_description |-> "detail from the provider"],
     [error |-> "server_error", error_description |-> "detail from the provider"]}

CallbackBodies ==
    {[NoBody EXCEPT !.state = st, !.code = c, !.error = e.error,
                    !.error_description = e.error_description]
     : st \in {NoNonce} \cup Nonces, c \in {Absent, "code"}, e \in ProviderErrors}

\* the bodies a role pick can carry
FullRoleBody == [NoBody EXCEPT !.arn = ArnById, !.alias = "prod", !.role = "Admin"]

RoleBodies ==
    {FullRoleBody, NoBody,
     [FullRoleBody EXCEPT !.arn = Absent],
     [FullRoleBody EXCEPT !.alias = Absent],
     [FullRoleBody EXCEPT !.role = Absent],
     [FullRoleBody EXCEPT !.error = "client error"]}

\* the query string of the initial request
NoQuery ==
    [action |-> Absent,
     role_arn |-> Absent,
     session_duration |-> Absent,
     cache |-> Absent,
     role |-> Absent,
     account |-> Absent]

\* no role, a role ARN, or a role name with an account alias
RoleQueries ==
    {NoQuery, [NoQuery EXCEPT !.role_arn = ArnById],
     [NoQuery EXCEPT !.role = "Admin", !.account = "prod"]}

Queries ==
    {[r EXCEPT !.action = a]
     : r \in RoleQueries,
       a \in {Absent, "aws-web-console", "rebuild-group-role-map", "bogus"}}
    \cup {[NoQuery EXCEPT !.session_duration = "abc"]}

\* get_role_arn(query_string_parameters): the role_arn parameter, or the ARN
\* put together from the account alias and the role name, or None
get_role_arn(q) ==
    IF q.role_arn # Absent THEN q.role_arn
    ELSE IF q.account # Absent /\ q.role # Absent THEN ArnByAlias
    ELSE Absent

\* path == '/'
Start(q) ==
    IF q.session_duration = "abc"
    THEN {Raise(EmptyStore, <<>>)}      \* int('abc'): ValueError
    ELSE redirect_to_idp(
             IF q.action = Absent THEN "aws-web-console" ELSE q.action,
             [role_arn |-> get_role_arn(q), role_name |-> q.role,
              role_account_alias |-> q.account, destination_url |-> "destination"],
             IF q.session_duration = Absent THEN "default" ELSE q.session_duration,
             IF q.cache = Absent THEN "true" ELSE q.cache)

\* path == '/redirect_uri'
RedirectUriPage(store) ==
    [store |-> [store EXCEPT !.client_workflow_state = "redirecting"],
     log |-> <<Set("redirecting", "")>>,
     raised |-> FALSE,
     status |-> 200,
     setCookie |-> TRUE,
     body |-> Text("index.html")]

\* GET /api/roles
ListRoles(store) ==
    IF store.id_token = NoToken
    THEN {Raise(store, <<>>)}          \* store['id_token']: KeyError
    ELSE {IF r = "ok"
          THEN return_api_gateway_json(TRUE,
                   [store EXCEPT !.client_workflow_state = "awaiting_role"],
                   Text("roles"),
                   <<Call("get_roles", "ok"), Set("awaiting_role", "")>>)
          ELSE Raise(store, <<Call("get_roles", r)>>)
          : r \in get_roles(store.id_token)}

\* RolePostCheck with parsed_body.get('alias') and parsed_body.get('role')
\* in place of the subscripts
RolePostCheckLenient(body) ==
    IF body.error # Absent \/ body.arn = Absent THEN "refused" ELSE "accepted"

\* POST /api/roles: how the body is taken: refused by the check on 'error'
\* and 'arn', or a KeyError on parsed_body['alias'] / parsed_body['role']
\* while the argument of store.update is built, or accepted
RolePostCheck(body) ==
    IF body.error # Absent \/ body.arn = Absent THEN "refused"
    ELSE IF body.alias = Absent \/ body.role = Absent THEN "KeyError"
    ELSE "accepted"

\* POST /api/roles
PostRoles(store, body) ==
    IF RolePostCheck(body) = "refused"
    THEN {Fixed(403, "Invalid POST data", store, <<>>)}
    ELSE IF RolePostCheck(body) = "KeyError"
    THEN {Raise(store, <<>>)}
    ELSE LET s1 == [store EXCEPT !.role_account_alias = body.alias,
                                 !.role_arn = body.arn,
                                 !.role_name = body.role]
         IN UNION {IF r.raised THEN {r}
                   ELSE {IF u = "ok"
                         THEN [r EXCEPT !.log = r.log \o <<Audit("Role assumed")>>]
                         ELSE Raise(r.store, r.log)
                         : u \in get_email_or_username(s1.id_token)}
                   : r \in pick_role(s1, <<>>)}

\* path == '/shutdown'
Shutdown(store) ==
    return_api_gateway_json(TRUE,
        [store EXCEPT !.client_workflow_state = "finished"], NoBodyOut,
        <<Set("finished", "")>>)

\* lambda_handler whose except Exception clause encodes the record in memory
\* into a Set-Cookie header of the 500 response
lambda_handler_encoding_on_failure(pre, store, dispatched) ==
    IF pre = "discovery_failed"
    THEN {Raise(store, <<Call("get_discovery_document", "fail")>>)}
    ELSE IF pre = "b64_error"
    THEN {Raise(store, <<Call("get_discovery_document", "ok")>>)}
    ELSE {IF r.raised
          THEN [Fixed(500, "Error", r.store,
                      <<Call("get_discovery_document", "ok")>> \o r.log)
                EXCEPT !.setCookie = TRUE]
          ELSE [r EXCEPT !.log = <<Call("get_discovery_document", "ok")>> \o r.log]
          : r \in dispatched}

\* lambda_handler around the dispatched code: the cookie is decoded and the
\* discovery document fetched before the try statement, the body is parsed
\* in a try that catches JSONDecodeError and TypeError only, and an
\* exception of the dispatched code becomes the fixed 500 response
lambda_handler(pre, store, dispatched) ==
    IF pre = "discovery_failed"
    THEN {Raise(store, <<Call("get_discovery_document", "fail")>>)}
    ELSE IF pre = "b64_error"
    THEN {Raise(store, <<Call("get_discovery_document", "ok")>>)}
    ELSE {IF r.raised
          THEN Fixed(500, "Error", r.store,
                     <<Call("get_discovery_document", "ok")>> \o r.log)
          ELSE [r EXCEPT !.log = <<Call("get_discovery_document", "ok")>> \o r.log]
          : r \in dispatched}

(***************************************************************************)
(* The requests                                                            *)
(***************************************************************************)
NoRequest ==
    [body |-> NoBody,
     q |-> NoQuery,
     pre |-> "json_error",
     op |-> "none"]

NoResponse ==
    [store |-> EmptyStore,
     log |-> <<>>,
     raised |-> FALSE,
     status |-> 0,
     setCookie |-> FALSE,
     body |-> NoBodyOut]

Init ==
    /\ cookie = EmptyStore
    /\ req = NoRequest
    /\ resp = NoResponse

\* the client sends the request with the cookie it holds and keeps the
\* cookie of the response, if the response sets one
Request(op, q, pre, body, out) ==
    /\ req' = [body |-> body,
               q |-> q,
               pre |-> pre,
               op |-> op]
    /\ resp' = out
    /\ cookie' = IF out.setCookie THEN out.store ELSE cookie

\* parsed_body when the body is not a JSON object
Unparsed(pre) == IF pre = "json_error" THEN JsonErrorBody ELSE NoBody

\* a request without a body that reaches the dispatch
Get(op, q, dispatched) ==
    \E out \in lambda_handler("json_error", get_store(cookie), dispatched) :
        Request(op, q, "json_error", Unparsed("json_error"), out)

\* a request of any path and method that ends before the dispatch
ReqUndispatched ==
    \E pre \in {"discovery_failed", "b64_error"} :
        \E out \in lambda_handler(pre, get_store(cookie), {}) :
            Request("any", NoQuery, pre, Unparsed(pre), out)

ReqStart ==
    \E q \in Queries : Get("/", q, Start(q))

ReqRedirectUri ==
    Get("/redirect_uri", NoQuery, {RedirectUriPage(get_store(cookie))})

ReqRedirectCallback ==
    \E pre \in {"json_error", "ok"} :
        \E body \in (IF pre = "ok" THEN CallbackBodies ELSE {Unparsed(pre)}) :
            \E out \in lambda_handler(pre, get_store(cookie),
                           handle_oidc_redirect_callback(get_store(cookie), body)) :
                Request("/redirect_callback", NoQuery, pre, body, out)

ReqGetRoles ==
    Get("GET /api/roles", NoQuery, ListRoles(get_store(cookie)))

ReqPostRoles ==
    \E pre \in {"json_error", "ok"} :
        \E body \in (IF pre = "ok" THEN RoleBodies ELSE {Unparsed(pre)}) :
            \E out \in lambda_handler(pre, get_store(cookie),
                           PostRoles(get_store(cookie), body)) :
                Request("POST /api/roles", NoQuery, pre, body, out)

ReqRolesOtherMethod ==
    Get("PUT /api/roles", NoQuery,
        {Fixed(405, "Method not allowed", get_store(cookie), <<>>)})

ReqState ==
    Get("/api/state", NoQuery, {get_state(get_store(cookie))})

ReqHeartbeat ==
    Get("/api/heartbeat", NoQuery,
        {return_api_gateway_json(TRUE, get_store(cookie), Text("running"), <<>>)})

ReqShutdown ==
    Get("/shutdown", NoQuery, {Shutdown(get_store(cookie))})

\* any other path: a static resource, or 404
ReqOther ==
    \E found \in BOOLEAN :
        Get("other", NoQuery,
            {IF found THEN Fixed(200, "static resource", get_store(cookie), <<>>)
             ELSE Fixed(404, "Not Found", get_store(cookie), <<>>)})

Next ==
    \/ ReqUndispatched
    \/ ReqStart
    \/ ReqRedirectUri
    \/ ReqRedirectCallback
    \/ ReqGetRoles
    \/ ReqPostRoles
    \/ ReqRolesOtherMethod
    \/ ReqState
    \/ ReqHeartbeat
    \/ ReqShutdown
    \/ ReqOther

Spec == Init /\ [][Next]_vars

(***************************************************************************)
(* Properties                                                              *)
(*                                                                         *)
(* In an action formula, cookie is the session the client sent with the    *)
(* request and cookie' the session it holds after the response.            *)
(***************************************************************************)
Called(log, name) ==
    \E i \in 1..Len(log) : log[i].ev = "call" /\ log[i].a = name

CalledWith(log, name, outcome) ==
    \E i \in 1..Len(log) : log[i] = Call(name, outcome)

WasSet(log, state) ==
    \E i \in 1..Len(log) : log[i].ev = "set" /\ log[i].a = state

\* the last request was dispatched to handle_oidc_redirect_callback
IsCallback(r) == r.op = "/redirect_callback"

\* the record the response hands to the client is in the error state with
\* the fixed message
DeniedRecord(c, r) ==
    /\ ~r.raised /\ r.status = 200 /\ r.setCookie
    /\ c.client_workflow_state = "error"
    /\ c.client_workflow_value = Message("Access denied")

\* C1: a callback whose state parameter differs from the oidc_state of the
\* session ends with the record in the error state with the message
\* 'Access denied', whatever the code; the request never sets role_picker,
\* aws_federate or info and never calls the token endpoint.
C1_StateBinding ==
    [][(IsCallback(req') /\ req'.body.state # cookie.oidc_state)
       => /\ DeniedRecord(cookie', resp')
          /\ ~WasSet(resp'.log, "role_picker")
          /\ ~WasSet(resp'.log, "aws_federate")
          /\ ~WasSet(resp'.log, "info")
          /\ ~Called(resp'.log, "token_endpoint")]_vars

\* a callback with a code and no error whose state is a nonce other than the
\* one of the session has been denied
C1_Witness ==
    /\ IsCallback(req) /\ req.pre = "ok"
    /\ req.body.error = Absent /\ req.body.code # Absent
    /\ req.body.state \in Nonces /\ cookie.oidc_state \in Nonces
    /\ req.body.state # cookie.oidc_state
    /\ DeniedRecord(cookie, resp)

\* C2: a callback that carries both an error parameter and a code ends with
\* the record in the error state ('Access denied'), and the request does not
\* call the token endpoint.
C2_ErrorPrecedence ==
    (IsCallback(req) /\ req.body.error # Absent /\ req.body.code # Absent)
    => /\ DeniedRecord(cookie, resp)
       /\ ~Called(resp.log, "token_endpoint")

\* a callback with an error, a code and the state of the session, which
\* without the error would have gone to the token endpoint, has been denied
C2_Witness ==
    /\ IsCallback(req) /\ req.pre = "ok"
    /\ req.body.error # Absent /\ req.body.code # Absent
    /\ req.body.state = cookie.oidc_state /\ cookie.oidc_state \in Nonces
    /\ DeniedRecord(cookie, resp)

\* the token exchange of the last request succeeded
ExchangeSucceeded(r) == CalledWith(r.log, "token_endpoint", "ok")

\* C3: after a callback whose token exchange succeeds with action
\* aws-web-console, the request leaves the record in role_picker when the
\* session has no role_arn, and in aws_federate or error (never role_picker)
\* when it has one.
C3_ActionRouting ==
    (IsCallback(req) /\ ExchangeSucceeded(resp)
        /\ resp.store.action = "aws-web-console")
    => /\ resp.setCookie
       /\ IF resp.store.role_arn = Absent
          THEN cookie.client_workflow_state = "role_picker"
          ELSE cookie.client_workflow_state \in {"aws_federate", "error"}

\* C4: a rejected callback hands the client the fixed message: the record
\* after a denial carries 'Access denied', and two callbacks on the session
\* that differ only in the error and error_description of the provider end
\* with the same workflow state and workflow value.
CallbackOutcomes(store, body) ==
    {[setCookie |-> r.setCookie, status |-> r.status,
      state |-> r.store.client_workflow_state,
      value |-> r.store.client_workflow_value]
     : r \in lambda_handler("ok", store, handle_oidc_redirect_callback(store, body))}

C4_FixedDenialMessage ==
    /\ (IsCallback(req) /\ ~resp.raised /\ resp.status = 200
            /\ ~ExchangeSucceeded(resp))
       => (cookie.client_workflow_state = "error"
           /\ cookie.client_workflow_value = Message("Access denied"))
    /\ \A b \in CallbackBodies : \A e \in ProviderErrors :
         (b.error # Absent /\ e.error # Absent)
         => CallbackOutcomes(cookie, b)
            = CallbackOutcomes(cookie, [b EXCEPT !.error = e.error,
                                        !.error_description = e.error_description])

\* a callback that carried a provider error with a description was rejected
\* and the record holds the fixed message
C4_Witness ==
    /\ IsCallback(req) /\ req.pre = "ok"
    /\ req.body.error = "server_error" /\ req.body.error_description # Absent
    /\ DeniedRecord(cookie, resp)

\* C5: the state query leaves the session as it is (no cookie is set, the
\* client holds the record it sent) and returns the workflow state and value
\* of that record.
C5_StateQueryReadOnly ==
    [][(req'.op = "/api/state")
       => /\ cookie' = cookie
          /\ ~resp'.setCookie /\ ~resp'.raised /\ resp'.status = 200
          /\ resp'.body.state = cookie.client_workflow_state
          /\ resp'.body.value = cookie.client_workflow_value]_vars

\* a state query on a session that holds a federation URL returned it
C5_Witness ==
    /\ req.op = "/api/state"
    /\ cookie.client_workflow_state = "aws_federate"
    /\ resp.body.state = "aws_federate" /\ resp.body.value = FederationUrl

C7_NothingPropagates == ~resp.raised

\* C8: after a successful token exchange with action aws-web-console and a
\* role_arn in the session, the request ends with the record in aws_federate
\* carrying the federation URL, or with the record in the error state.
C8_RoleBranchSettles ==
    (IsCallback(req) /\ ExchangeSucceeded(resp)
        /\ resp.store.action = "aws-web-console" /\ resp.store.role_arn # Absent)
    => /\ ~resp.raised /\ resp.status = 200 /\ resp.setCookie
       /\ \/ /\ cookie.client_workflow_state = "aws_federate"
             /\ cookie.client_workflow_value = FederationUrl
          \/ cookie.client_workflow_state = "error"

\* C9: a role pick whose body lacks arn, alias or role is turned down (403 or
\* the fixed 500) without a call to role resolution or federation, and
\* neither the session of the client nor the record in memory is changed.
C9_RolePickValidation ==
    [][(req'.op = "POST /api/roles" /\ req'.pre = "ok"
          /\ (req'.body.arn = Absent \/ req'.body.alias = Absent
                \/ req'.body.role = Absent))
       => /\ resp'.status \in {403, 500} /\ ~resp'.raised
          /\ ~resp'.setCookie
          /\ cookie' = cookie
          /\ resp'.store = cookie
          /\ ~Called(resp'.log, "get_aws_federation_url")
          /\ ~Called(resp'.log, "convert_account_alias")]_vars

\* a role pick with an arn and a role but no alias was turned down
C9_Witness ==
    /\ req.op = "POST /api/roles" /\ req.pre = "ok"
    /\ req.body.arn # Absent /\ req.body.role # Absent /\ req.body.alias = Absent
    /\ resp.status = 500 /\ ~resp.setCookie
    /\ cookie.id_token \in Tokens

\* C10: after a successful token exchange, an action other than
\* aws-web-console and rebuild-group-role-map ends with the record in the
\* error state with 'Invalid action argument', and the request makes no role
\* resolution, federation or rebuild call.
C10_InvalidAction ==
    (IsCallback(req) /\ ExchangeSucceeded(resp)
        /\ resp.store.action \notin {"aws-web-console", "rebuild-group-role-map"})
    => /\ ~resp.raised /\ resp.status = 200 /\ resp.setCookie
       /\ cookie.client_workflow_state = "error"
       /\ cookie.client_workflow_value = Message("Invalid action argument")
       /\ ~Called(resp.log, "convert_account_alias")
       /\ ~Called(resp.log, "get_aws_federation_url")
       /\ ~Called(resp.log, "trigger_group_role_map_rebuild")

\* a callback on a session started with an action that is neither of the two
\* ended in the error state, also when the session carries a role_arn
C10_Witness ==
    /\ IsCallback(req) /\ ExchangeSucceeded(resp)
    /\ cookie.action = "bogus" /\ cookie.role_arn # Absent
    /\ cookie.client_workflow_state = "error"
    /\ cookie.client_workflow_value = Message("Invalid action argument")

\* the last request was the initial request and was answered with the
\* redirect to the identity provider
IsStart(r, out) == r.op = "/" /\ out.status = 302

\* C11 as stated: the record in the cookie that comes with the redirect to
\* the identity provider has the workflow state redirecting.
C11_StartRedirecting ==
    IsStart(req, resp)
    => (resp.setCookie /\ cookie.client_workflow_state = "redirecting")

\* C11: the record in the cookie that comes with the redirect to the identity
\* provider has no workflow state and no workflow value (None); it is the
\* /redirect_uri request, which the identity provider sends the browser to,
\* that sets the workflow state of the record to redirecting.
C11_StartThenRedirectUri ==
    /\ IsStart(req, resp)
       => /\ resp.setCookie
          /\ cookie.client_workflow_state = Absent
          /\ cookie.client_workflow_value = NoValue
    /\ req.op = "/redirect_uri"
       => /\ resp.status = 200 /\ resp.setCookie
          /\ cookie.client_workflow_state = "redirecting"

\* an initial request was answered with the redirect; the cookie carries the
\* new oidc_state and code_verifier and no workflow state
C11_Witness ==
    /\ IsStart(req, resp) /\ resp.setCookie
    /\ resp.store = cookie
    /\ cookie.oidc_state \in Nonces /\ cookie.code_verifier \in Nonces
    /\ cookie.client_workflow_state = Absent

\* C12: a /shutdown request sets the workflow state of the record to
\* finished, whatever state the record was in, and the request makes no call
\* that leaves the process: no fetch of the discovery document or the JWKS,
\* no token endpoint call, no AWS call.
C12_ShutdownNoExternalCall ==
    (req.op = "/shutdown")
    => /\ resp.status = 200 /\ resp.setCookie
       /\ cookie.client_workflow_state = "finished"
       /\ \A i \in 1..Len(resp.log) : resp.log[i].ev # "call"

\* C13: a GET or POST on /api/roles sent with a session that has no id_token
\* is denied as an invalid request: the response is a fixed 4xx, or it hands
\* back the record in the error state; it is not answered as an internal
\* failure.  (Neither handler writes id_token, so the id_token of the record
\* in memory is the one of the session that was sent.)
C13_RolesWithoutSession ==
    (req.op \in {"GET /api/roles", "POST /api/roles"}
        /\ resp.store.id_token = NoToken)
    => /\ ~resp.raised
       /\ \/ resp.status \in 400..499
          \/ /\ resp.status = 200 /\ resp.setCookie
             /\ cookie.client_workflow_state = "error"

\* C14: the transitions are taken from the states they are listed for: the
\* callback is applied to a record in redirecting only, a role pick to a
\* record in awaiting_role or role_picker only, so that a record enters
\* aws_federate from redirecting, awaiting_role or role_picker and from no
\* other state.  (A request that is turned down with the error state is not
\* counted as the transition.)
C14_TransitionSources ==
    [][/\ (IsCallback(req') /\ resp'.setCookie
             /\ cookie'.client_workflow_state # "error")
          => cookie.client_workflow_state = "redirecting"
       /\ (req'.op = "POST /api/roles" /\ resp'.setCookie
             /\ cookie'.client_workflow_state # "error")
          => cookie.client_workflow_state \in {"awaiting_role", "role_picker"}
       /\ (resp'.setCookie /\ WasSet(resp'.log, "aws_federate"))
          => cookie.client_workflow_state
                \in {"redirecting", "awaiting_role", "role_picker"}]_vars

\* C15: oidc_state and code_verifier are written by the initial request
\* only, both in the same step and as the pair its redirect is built from;
\* no other request (/redirect_uri, callback, role listing, role pick,
\* heartbeat, shutdown, or one that fails) changes either of them, in the
\* record in memory or in the cookie, whatever the query and the body carry;
\* so the record holds both or neither.
C15_PairWrittenByStartOnly ==
    [][/\ (req'.op # "/")
          => /\ cookie'.oidc_state = cookie.oidc_state
             /\ cookie'.code_verifier = cookie.code_verifier
             /\ resp'.store.oidc_state = cookie.oidc_state
             /\ resp'.store.code_verifier = cookie.code_verifier
       /\ (req'.op = "/")
          => IF resp'.setCookie
             THEN /\ cookie'.oidc_state \in Nonces
                  /\ cookie'.code_verifier \in Nonces
                  /\ cookie'.oidc_state = resp'.body.location.state
                  /\ S256(cookie'.code_verifier) = resp'.body.location.challenge
             ELSE /\ cookie'.oidc_state = cookie.oidc_state
                  /\ cookie'.code_verifier = cookie.code_verifier
       /\ (cookie'.oidc_state = NoNonce) <=> (cookie'.code_verifier = NoNonce)]_vars

\* a role pick whose body was written into the record, and a successful
\* callback before it, left the pair of the session in the cookie
C15_Witness ==
    /\ req.op = "POST /api/roles" /\ req.pre = "ok" /\ resp.setCookie
    /\ cookie.role_arn = req.body.arn /\ cookie.role_name = req.body.role
    /\ cookie.id_token \in Tokens
    /\ cookie.oidc_state \in Nonces /\ cookie.code_verifier \in Nonces

\* C16: code_verifier is in the record between the redirect and the callback
\* only: the record a callback hands back has no code_verifier, and neither
\* has a record in a state that is reached through a processed callback
\* (role_picker, awaiting_role, aws_federate, info).
C16_VerifierGoneAfterCallback ==
    /\ (IsCallback(req) /\ resp.setCookie) => cookie.code_verifier = NoNonce
    /\ cookie.client_workflow_state
          \in {"role_picker", "awaiting_role", "aws_federate", "info"}
       => cookie.code_verifier = NoNonce

\* C17: the redirect of an initial request and the cookie that comes with it
\* are bound to each other: the code_challenge of the URL is the SHA-256
\* digest of the code_verifier of the cookie (and not the verifier itself),
\* the method is S256, the state of the URL is the oidc_state of the cookie;
\* and state is drawn independently of the verifier: every verifier can come
\* with every state.
C17_ChallengeAndStateBound ==
    IsStart(req, resp)
    => /\ resp.setCookie /\ resp.store = cookie
       /\ cookie.code_verifier \in Nonces /\ cookie.oidc_state \in Nonces
       /\ resp.body.location.challenge = S256(cookie.code_verifier)
       /\ resp.body.location.challenge \notin Nonces
       /\ \A v \in Nonces :
            v # cookie.code_verifier => S256(v) # resp.body.location.challenge
       /\ resp.body.location.method = "S256"
       /\ resp.body.location.state = cookie.oidc_state
       /\ \A v \in Nonces, st \in Nonces :
            \E r \in Start(req.q) :
                /\ r.store.code_verifier = v /\ r.store.oidc_state = st
                /\ r.body.location.challenge = S256(v)
                /\ r.body.location.state = st

\* an initial request whose two draws differ: the challenge of the URL is
\* the digest of the verifier, not of the state
C17_Witness ==
    /\ IsStart(req, resp) /\ resp.setCookie
    /\ cookie.code_verifier # cookie.oidc_state
    /\ resp.body.location.challenge = S256(cookie.code_verifier)
    /\ resp.body.location.challenge # S256(cookie.oidc_state)
    /\ resp.body.location.state = cookie.oidc_state

\* C18: a callback that login rejects with AccessDenied changes
\* client_workflow_state and client_workflow_value and nothing else: the
\* record the client holds afterwards is the one it sent but for these two
\* fields; in particular id_token is neither added nor replaced.
C18_DeniedCallbackFrame ==
    [][(IsCallback(req') /\ ~resp'.raised /\ resp'.status = 200
          /\ ~ExchangeSucceeded(resp'))
       => /\ resp'.setCookie
          /\ cookie' = SetWorkflow(cookie, "error", Message("Access denied"))
          /\ cookie'.id_token = cookie.id_token
          /\ resp'.store = cookie']_vars

\* the token endpoint denied the callback of a session that held an id_token
\* and a role from an earlier exchange and role pick: the record keeps them
C18_Witness ==
    /\ IsCallback(req) /\ ~ExchangeSucceeded(resp)
    /\ CalledWith(resp.log, "token_endpoint", "denied")
    /\ DeniedRecord(cookie, resp)
    /\ cookie.id_token \in Tokens /\ cookie.role_name # Absent
    /\ cookie.oidc_state \in Nonces

\* the failures of collaborators that no handler catches
UncaughtFailures ==
    {Call("token_endpoint", "timeout"),
     Call("convert_account_alias", "AccessDenied"),
     Call("get_aws_federation_url", "Other"),
     Call("get_roles", "AccessDenied"),
     Call("get_roles", "Other")}

\* the code the request was dispatched to raised: the response is the 500, or
\* the request is one whose handler raises on its input (int('abc'), the
\* subscripts store['id_token'], parsed_body['alias'], parsed_body['role']),
\* or the log shows a failure of a collaborator that no handler catches
DispatchRaised(c, r, out) ==
    \/ out.status = 500
    \/ r.op = "/" /\ r.q.session_duration = "abc"
    \/ r.op = "GET /api/roles" /\ c.id_token = NoToken
    \/ r.op = "POST /api/roles" /\ RolePostCheck(r.body) = "KeyError"
    \/ \E i \in 1..Len(out.log) : out.log[i] \in UncaughtFailures

\* C19: when the code a request is dispatched to raises, the response is the
\* fixed 500 'Error' without a Set-Cookie header: what the handler had
\* written into the record in memory (the id_token of a successful exchange,
\* the role of a pick) is dropped, and the client holds the session it sent.
C19_FailureDiscardsMutations ==
    [][DispatchRaised(cookie, req', resp')
       => /\ ~resp'.raised /\ resp'.status = 500
          /\ resp'.body = Text("Error")
          /\ ~resp'.setCookie
          /\ cookie' = cookie]_vars

\* a callback whose exchange succeeded and whose federation call failed: the
\* record in memory has the new id_token, the session of the client has not
C19_Witness ==
    /\ IsCallback(req) /\ ExchangeSucceeded(resp)
    /\ CalledWith(resp.log, "get_aws_federation_url", "Other")
    /\ resp.status = 500 /\ ~resp.setCookie
    /\ resp.store.id_token \in Tokens
    /\ cookie.id_token # resp.store.id_token
    /\ cookie.client_workflow_state = "redirecting"

\* C20: the audit log line 'Role ... assumed by ... from IP ...' is written
\* only by a request whose federation call succeeded and that hands back the
\* record in aws_federate; a role pick or a callback that ends with the
\* record in the error state writes no such line.
C20_AuditOnlyOnSuccess ==
    (\E i \in 1..Len(resp.log) : resp.log[i] = Audit("Role assumed"))
    => /\ CalledWith(resp.log, "get_aws_federation_url", "ok")
       /\ resp.setCookie
       /\ cookie.client_workflow_state = "aws_federate"
====
